---- MODULE Spec2Model ----
(***************************************************************************)
(* Model of the sentient-weather page composer: the POST branch of         *)
(* index() in sentient_weather.py and the generators of                    *)
(* notebook_functions.py it calls (generate_color_palette,                 *)
(* generate_font_recommendations, generate_city_image with its on-disk     *)
(* image cache under static/images).                                       *)
(*                                                                         *)
(* Strings the code takes apart character by character (served paths, hex  *)
(* colours, rgb(...) texts) are sequences of one-character strings.  File  *)
(* names are records [stem, ext]; a stem is the sequence of the parts the  *)
(* code joins with "_".  Time is in seconds relative to process start.     *)
(***************************************************************************)
EXTENDS Integers, Sequences, FiniteSets, TLC

VARIABLES now, files, req, started, calls

vars == <<now, files, req, started, calls>>

-----------------------------------------------------------------------------
(* Bounds and program constants *)

\* number of POST requests served in one behaviour
MaxRequests == 1

\* number of POST requests of the burst specification
BurstRequests == 7

\* number of POST requests the two handler threads serve between them
RaceRequests == 2

\* generate_city_image: "if len(existing_images) > 20" / existing_images[20:]
MaxImages == 20

\* generate_city_image: timedelta(hours=24), in hours
CacheHours == 24

CacheTTL == CacheHours * 3600

\* instants the clock can show: process start, and the second an entry
\* written at process start expires
Times == {0, CacheTTL}

\* request slots: index() runs in one handler thread per request
Slots == {"r1", "r2"}

None == [none |-> TRUE]

-----------------------------------------------------------------------------
(* Strings *)

RECURSIVE LStrip(_, _)
\* str.lstrip(chars): drops leading characters that are in the set chars
LStrip(s, chars) ==
    IF s # <<>> /\ Head(s) \in chars THEN LStrip(Tail(s), chars) ELSE s

RECURSIVE RStrip(_, _)
\* str.rstrip(chars)
RStrip(s, chars) ==
    IF s # <<>> /\ s[Len(s)] \in chars
    THEN RStrip(SubSeq(s, 1, Len(s) - 1), chars) ELSE s

\* str.strip(chars)
Strip(s, chars) == RStrip(LStrip(s, chars), chars)

\* the characters of the literal '/static/'
StaticPrefix == <<"/", "s", "t", "a", "t", "i", "c", "/">>

\* the characters of the literal 'images/'
ImagesDir == <<"i", "m", "a", "g", "e", "s", "/">>

\* the set of characters of a string
CharsOf(s) == {s[i] : i \in 1..Len(s)}

-----------------------------------------------------------------------------
(* Cities, weather codes, cache keys *)

\* A city name is a word followed by a decimal suffix (0: no suffix), so
\* "Paris" is [w |-> "Paris", n |-> 0] and "City7" is [w |-> "City", n |-> 7].
City(w, n) == [w |-> w, n |-> n]

\* str.lower() on the words of the model
Lower == [w \in {"Paris", "PARIS", "City", "paris", "city"} |->
            IF w \in {"Paris", "PARIS", "paris"} THEN "paris" ELSE "city"]

\* secure_filename(city.lower())
SafeCity(c) == [w |-> Lower[c.w], n |-> c.n]

\* the weather_codes table of get_weather_description
weather_codes ==
    (0 :> "Clear sky") @@
    (1 :> "Mainly clear") @@
    (2 :> "Partly cloudy") @@
    (3 :> "Overcast") @@
    (45 :> "Fog") @@
    (48 :> "Depositing rime fog") @@
    (51 :> "Drizzle: Light intensity") @@
    (53 :> "Drizzle: Moderate intensity") @@
    (55 :> "Drizzle: Dense intensity") @@
    (56 :> "Freezing Drizzle: Light intensity") @@
    (57 :> "Freezing Drizzle: Dense intensity") @@
    (61 :> "Rain: Slight intensity") @@
    (63 :> "Rain: Moderate intensity") @@
    (65 :> "Rain: Heavy intensity") @@
    (66 :> "Freezing Rain: Light intensity") @@
    (67 :> "Freezing Rain: Heavy intensity") @@
    (71 :> "Snow fall: Slight intensity") @@
    (73 :> "Snow fall: Moderate intensity") @@
    (75 :> "Snow fall: Heavy intensity") @@
    (77 :> "Snow grains") @@
    (80 :> "Rain showers: Slight") @@
    (81 :> "Rain showers: Moderate") @@
    (82 :> "Rain showers: Violent") @@
    (85 :> "Snow showers slight") @@
    (86 :> "Snow showers Heavy") @@
    (95 :> "Thunderstorm: Slight or moderate") @@
    (96 :> "Thunderstorm with slight hail") @@
    (99 :> "Thunderstorm with heavy hail")

\* get_weather_description: weather_codes.get(int(weather_code), 'Unknown')
get_weather_description(code) ==
    IF code \in DOMAIN weather_codes THEN weather_codes[code] ELSE "Unknown"

\* secure_filename(description.lower()) of each description: lower case,
\* blanks to "_", characters other than letters, digits, "_", "." and "-"
\* dropped
SlugTable ==
    ("Clear sky" :> "clear_sky") @@
    ("Mainly clear" :> "mainly_clear") @@
    ("Partly cloudy" :> "partly_cloudy") @@
    ("Overcast" :> "overcast") @@
    ("Fog" :> "fog") @@
    ("Depositing rime fog" :> "depositing_rime_fog") @@
    ("Drizzle: Light intensity" :> "drizzle_light_intensity") @@
    ("Drizzle: Moderate intensity" :> "drizzle_moderate_intensity") @@
    ("Drizzle: Dense intensity" :> "drizzle_dense_intensity") @@
    ("Freezing Drizzle: Light intensity" :> "freezing_drizzle_light_intensity") @@
    ("Freezing Drizzle: Dense intensity" :> "freezing_drizzle_dense_intensity") @@
    ("Rain: Slight intensity" :> "rain_slight_intensity") @@
    ("Rain: Moderate intensity" :> "rain_moderate_intensity") @@
    ("Rain: Heavy intensity" :> "rain_heavy_intensity") @@
    ("Freezing Rain: Light intensity" :> "freezing_rain_light_intensity") @@
    ("Freezing Rain: Heavy intensity" :> "freezing_rain_heavy_intensity") @@
    ("Snow fall: Slight intensity" :> "snow_fall_slight_intensity") @@
    ("Snow fall: Moderate intensity" :> "snow_fall_moderate_intensity") @@
    ("Snow fall: Heavy intensity" :> "snow_fall_heavy_intensity") @@
    ("Snow grains" :> "snow_grains") @@
    ("Rain showers: Slight" :> "rain_showers_slight") @@
    ("Rain showers: Moderate" :> "rain_showers_moderate") @@
    ("Rain showers: Violent" :> "rain_showers_violent") @@
    ("Snow showers slight" :> "snow_showers_slight") @@
    ("Snow showers Heavy" :> "snow_showers_heavy") @@
    ("Thunderstorm: Slight or moderate" :> "thunderstorm_slight_or_moderate") @@
    ("Thunderstorm with slight hail" :> "thunderstorm_with_slight_hail") @@
    ("Thunderstorm with heavy hail" :> "thunderstorm_with_heavy_hail") @@
    ("Unknown" :> "unknown")

\* secure_filename(weather_description.lower())
SafeWeather(desc) == SlugTable[desc]

\* cache_key = f"{safe_city_name}_{safe_weather}"
CacheKey(city, desc) == <<SafeCity(city), SafeWeather(desc)>>

\* cache_file = static_dir/f"{cache_key}.json"
CacheFile(key) == [stem |-> key, ext |-> "json"]

\* filename = f"{cache_key}_{timestamp}.png"
ImageFile(key, timestamp) == [stem |-> key \o <<timestamp>>, ext |-> "png"]

\* relative_path = f'/static/images/{filename}'
RelativePath(filename) == [dir |-> StaticPrefix \o ImagesDir, file |-> filename]

-----------------------------------------------------------------------------
(* The image directory static/images: files maps a file name to its        *)
(* creation time and content.                                              *)

Pngs(fs) == {n \in DOMAIN fs : n.ext = "png"}

Jsons(fs) == {n \in DOMAIN fs : n.ext = "json"}

\* open(path, 'w') ... write: creates or replaces the file
WriteFile(fs, name, t, data) == (name :> [ctime |-> t, data |-> data]) @@ fs

\* os.remove(path)
RemoveFile(fs, name) == [n \in (DOMAIN fs) \ {name} |-> fs[n]]

\* image_path.lstrip('/static/'): strips the characters / s t a i c.  The
\* directory part '/static/images/' holds an 'm', so the stripping ends
\* inside it and never reaches the file name.
StripServedPath(p) == [dir |-> LStrip(p.dir, CharsOf(StaticPrefix)), file |-> p.file]

\* os.path.join(project_root, 'static', <stripped path>)
StaticImagePath(p) ==
    LET q == StripServedPath(p)
    IN  [dir |-> <<"s", "t", "a", "t", "i", "c", "/">> \o q.dir, file |-> q.file]

\* os.path.exists on a path below project_root: static/ holds images/ only
PathExists(fs, p) ==
    /\ p.dir = <<"s", "t", "a", "t", "i", "c", "/">> \o ImagesDir
    /\ p.file \in DOMAIN fs

\* The cache lookup of generate_city_image (lines 490-501): the recorded
\* path on a hit, None on a miss.
CacheLookupNoFileCheck(fs, key, t) ==
    IF CacheFile(key) \in DOMAIN fs
    THEN LET cache_data == fs[CacheFile(key)].data
         IN  IF t - cache_data.timestamp < CacheTTL
             THEN cache_data.image_path
             ELSE None
    ELSE None

CacheLookup(fs, key, t) ==
    IF CacheFile(key) \in DOMAIN fs
    THEN LET cache_data == fs[CacheFile(key)].data
         IN  IF t - cache_data.timestamp < CacheTTL
             THEN IF PathExists(fs, StaticImagePath(cache_data.image_path))
                  THEN cache_data.image_path
                  ELSE None
             ELSE None
    ELSE None

\* the png files with the smallest creation time
Oldest(fs, S) == {p \in S : \A q \in S : fs[p].ctime <= fs[q].ctime}

RECURSIVE OldTails(_, _, _)
\* the possible values of sorted(..., key=ctime, reverse=True)[len - k:]:
\* descending creation time, files of equal creation time in any order
OldTails(fs, S, k) ==
    IF k <= 0 THEN {<<>>}
    ELSE UNION {{Append(s, p) : s \in OldTails(fs, S \ {p}, k - 1)} : p \in Oldest(fs, S)}

\* existing_images[20:] (lines 512-519)
OldImages(fs) == OldTails(fs, Pngs(fs), Cardinality(Pngs(fs)) - MaxImages)

\* old_cache = f"{splitext(basename(old_image))[0]}.json" (line 523)
OldCache(old_image) == [stem |-> old_image.stem, ext |-> "json"]

\* One pass of the clean-up loop body (lines 520-527) for old_image.
\* rmImage / rmCache: whether os.remove succeeds on the image / on old_cache.
RemoveOld(fs, old_image, rmImage, rmCache) ==
    IF old_image \in DOMAIN fs /\ rmImage
    THEN LET fs1 == RemoveFile(fs, old_image)
         IN  IF OldCache(old_image) \in DOMAIN fs1 /\ rmCache
             THEN RemoveFile(fs1, OldCache(old_image))
             ELSE fs1
    ELSE fs

\* the cache_data record written to the sidecar (lines 574-579)
CacheData(timestamp, filename, city, desc) ==
    [timestamp |-> timestamp, image_path |-> RelativePath(filename),
     city |-> city, weather |-> desc]

\* the image bytes written to the png
ImageData == [image |-> TRUE]

RECURSIVE RemoveAll(_, _, _)
\* the whole clean-up loop; rm: whether its os.remove calls succeed
RemoveAll(fs, olds, rm) ==
    IF olds = <<>> THEN fs
    ELSE RemoveAll(RemoveOld(fs, Head(olds), rm, rm), Tail(olds), rm)

\* a whole cache-miss run of generate_city_image at time t with a
\* successful generator
PutAt(fs, city, desc, t, rm) ==
    LET key  == CacheKey(city, desc)
        name == ImageFile(key, t)
        fs1  == RemoveAll(fs, CHOOSE s \in OldImages(fs) : TRUE, rm)
        fs2  == WriteFile(fs1, name, t, ImageData)
    IN  WriteFile(fs2, CacheFile(key), t, CacheData(t, name, city, desc))

RECURSIVE EarlierRunsTo(_, _)
\* The directory left by k earlier requests, for City1 .. Cityk in clear
\* sky, one per second, the last one a second before process start.
EarlierRunsTo(i, k) ==
    IF i = 0 THEN <<>>
    ELSE LET before == EarlierRunsTo(i - 1, k)
         IN  IF DOMAIN before = {}
             THEN PutAt(<<>>, City("City", i), get_weather_description(0), i - k - 1, TRUE)
             ELSE PutAt(before, City("City", i), get_weather_description(0), i - k - 1, TRUE)

EarlierRuns(k) == EarlierRunsTo(k, k)

\* the same, the os.remove of the last of the k runs having raised
EarlierRunsStuck(k) ==
    PutAt(EarlierRunsTo(k - 1, k), City("City", k), get_weather_description(0), 0 - 1, FALSE)

-----------------------------------------------------------------------------
(* Values of a parsed JSON document: a string is [t |-> "str", s |-> its   *)
(* characters], a number is [t |-> "num", n |-> its value].                *)

Str(chars) == [t |-> "str", s |-> chars]

Num(n) == [t |-> "num", n |-> n]

Digits == <<"0", "1", "2", "3", "4", "5", "6", "7", "8", "9">>

HexDigits == Digits \o <<"a", "b", "c", "d", "e", "f">>

DigitValue(c) == (CHOOSE i \in 1..10 : Digits[i] = c) - 1

IsDigit(c) == \E i \in 1..10 : Digits[i] = c

RECURSIVE Split(_, _)
\* str.split(sep) for a one-character separator
Split(s, sep) ==
    IF \E i \in 1..Len(s) : s[i] = sep
    THEN LET i == CHOOSE j \in 1..Len(s) : s[j] = sep /\ \A k \in 1..(j - 1) : s[k] # sep
         IN  <<SubSeq(s, 1, i - 1)>> \o Split(SubSeq(s, i + 1, Len(s)), sep)
    ELSE <<s>>

RECURSIVE DecimalValue(_)
DecimalValue(ds) ==
    IF ds = <<>> THEN 0
    ELSE 10 * DecimalValue(SubSeq(ds, 1, Len(ds) - 1)) + DigitValue(ds[Len(ds)])

\* int(x.strip()): blanks around, an optional sign, then decimal digits;
\* [ok |-> FALSE] is the ValueError
ParseInt(x) ==
    LET y      == Strip(x, {" "})
        signed == y # <<>> /\ Head(y) \in {"+", "-"}
        ds     == IF signed THEN Tail(y) ELSE y
    IN  IF ds # <<>> /\ \A i \in 1..Len(ds) : IsDigit(ds[i])
        THEN [ok |-> TRUE,
              n  |-> IF signed /\ Head(y) = "-" THEN 0 - DecimalValue(ds)
                     ELSE DecimalValue(ds)]
        ELSE [ok |-> FALSE]

RECURSIVE HexOf(_)
\* the lower-case hexadecimal digits of n >= 0
HexOf(n) ==
    IF n < 16 THEN <<HexDigits[n + 1]>>
    ELSE HexOf(n \div 16) \o <<HexDigits[(n % 16) + 1]>>

\* '{:02x}'.format(n): sign, digits, zero-padded to two characters
Format02x(n) ==
    IF n < 0 THEN <<"-">> \o HexOf(0 - n)
    ELSE IF n < 16 THEN <<"0">> \o HexOf(n)
    ELSE HexOf(n)

-----------------------------------------------------------------------------
(* generate_color_palette and process_colors *)

required_colors ==
    <<"color_page_background", "color_tiles_container", "color_tiles",
      "color_tile_heading", "color_tile_temp_high", "color_tile_temp_low",
      "color_tile_weather_details">>

RequiredColorSet == {required_colors[i] : i \in 1..Len(required_colors)}

\* sentient_weather.get_default_colors
get_default_colors ==
    [color_page_background      |-> Str(<<"#", "F", "5", "E", "6", "D", "3">>),
     color_tiles_container      |-> Str(<<"#", "F", "F", "B", "3", "6", "6">>),
     color_tiles                |-> Str(<<"#", "F", "F", "F", "F", "F", "F">>),
     color_tile_heading         |-> Str(<<"#", "9", "9", "4", "D", "0", "0">>),
     color_tile_temp_high       |-> Str(<<"#", "C", "C", "3", "3", "0", "0">>),
     color_tile_temp_low        |-> Str(<<"#", "3", "3", "6", "6", "9", "9">>),
     color_tile_weather_details |-> Str(<<"#", "4", "D", "4", "D", "4", "D">>)]

\* rgb_to_hex (lines 216-225): [ok |-> FALSE] is the ValueError it raises
rgb_to_hex(rgb_str) ==
    IF rgb_str # <<>> /\ Head(rgb_str) = "#"
    THEN [ok |-> TRUE, s |-> rgb_str]
    ELSE LET parts == Split(Strip(rgb_str, {"r", "g", "b", "(", ")"}), ",")
             vals  == [i \in 1..Len(parts) |-> ParseInt(parts[i])]
         IN  IF (\A i \in 1..Len(parts) : vals[i].ok) /\ Len(parts) >= 3
             THEN [ok |-> TRUE,
                   s  |-> <<"#">> \o Format02x(vals[1].n) \o Format02x(vals[2].n)
                                  \o Format02x(vals[3].n)]
             ELSE [ok |-> FALSE]

\* The validation loop of generate_color_palette (lines 227-236) on the
\* parsed completion: the normalised palette, or None when it raises.
ValidateColorsNoKeyCheck(colors) ==
    IF \A c \in RequiredColorSet \cap DOMAIN colors :
            colors[c].t = "str" /\ rgb_to_hex(colors[c].s).ok
    THEN [c \in DOMAIN colors |->
            IF c \in RequiredColorSet THEN Str(rgb_to_hex(colors[c].s).s) ELSE colors[c]]
    ELSE None

ValidateColors(colors) ==
    IF \A c \in RequiredColorSet :
            c \in DOMAIN colors /\ colors[c].t = "str" /\ rgb_to_hex(colors[c].s).ok
    THEN [c \in DOMAIN colors |->
            IF c \in RequiredColorSet THEN Str(rgb_to_hex(colors[c].s).s) ELSE colors[c]]
    ELSE None

\* generate_color_palette on the generator's answer: kind "error" is a
\* failed invoke_model, "text" a completion json.loads rejects, "json" a
\* completion that parses to the object val.  Every exception ends in
\* "return None" (lines 238-248).
generate_color_palette(raw) ==
    IF raw.kind = "json" THEN ValidateColors(raw.val) ELSE None

\* sentient_weather.process_colors on what generate_color_palette returns
\* (a dict or None)
ProcessColorsPassThrough(color_response) == color_response

process_colors(color_response) ==
    IF color_response # None THEN color_response ELSE get_default_colors

-----------------------------------------------------------------------------
(* Fonts.  A font text is Str of its blank-separated words; a descriptor   *)
(* is a function from property names to values; the value of a category    *)
(* in the generator's answer is [t |-> "dict", d |-> descriptor], a string *)
(* or [t |-> "list", items |-> the strings of a JSON array].               *)

Dict(d) == [t |-> "dict", d |-> d]

required_categories == <<"primary_heading", "secondary_heading", "body_text", "accent_text">>

CategorySet == {required_categories[i] : i \in 1..Len(required_categories)}

required_properties == {"family", "weight", "style", "fallback"}

Descriptor(family, fallback, weight, style) ==
    [family |-> Str(family), fallback |-> Str(<<fallback>>),
     weight |-> Str(<<weight>>), style |-> Str(<<style>>)]

\* one item "family=<words joined by +>:wght@<weight>" of a Google Fonts
\* query; wght is None when the item has no ":wght@" part
FamilyItem(family, wght) == [family |-> family, wght |-> wght]

\* sentient_weather.get_default_fonts (lines 30-58)
get_default_fonts ==
    [primary_heading   |-> Descriptor(<<"Playfair", "Display">>, "serif", "700", "normal"),
     secondary_heading |-> Descriptor(<<"Montserrat">>, "sans-serif", "600", "normal"),
     body_text         |-> Descriptor(<<"Open", "Sans">>, "sans-serif", "400", "normal"),
     accent_text       |-> Descriptor(<<"Roboto", "Condensed">>, "sans-serif", "400", "normal"),
     google_fonts_url  |->
        [query |-> <<FamilyItem(<<"Playfair", "Display">>, Str(<<"700">>)),
                     FamilyItem(<<"Montserrat">>, Str(<<"600">>)),
                     FamilyItem(<<"Open", "Sans">>, None),
                     FamilyItem(<<"Roboto", "Condensed">>, None)>>,
         display_swap |-> TRUE]]

\* "prop not in font_data[category]" (line 459): key membership for an
\* object, element membership for an array; a string value holds none of
\* the property names and a number raises TypeError
HasProperty(v, prop) ==
    CASE v.t = "dict" -> prop \in DOMAIN v.d
      [] v.t = "list" -> prop \in v.items
      [] OTHER        -> FALSE

\* The validation of generate_font_recommendations (lines 451-462) on the
\* parsed completion: font_data, or None when it raises.
ValidateFontsNoPropertyCheck(font_data) ==
    IF \A c \in CategorySet : c \in DOMAIN font_data /\ font_data[c].t = "dict"
    THEN font_data
    ELSE None

ValidateFonts(font_data) ==
    IF \A c \in CategorySet :
            /\ c \in DOMAIN font_data
            /\ \A prop \in required_properties : HasProperty(font_data[c], prop)
    THEN font_data
    ELSE None

\* generate_font_recommendations on the generator's answer (kinds as for
\* the palette); every exception ends in "return None" (lines 464-471)
generate_font_recommendations(raw) ==
    IF raw.kind = "json" THEN ValidateFonts(raw.val) ELSE None

\* sentient_weather.process_fonts (lines 92-139) on a parsed object
process_fonts(generated_fonts) ==
    LET \* lines 111-115; .copy() exists on objects and arrays only
        copied == [c \in CategorySet |->
                     IF c \in DOMAIN generated_fonts
                     THEN generated_fonts[c] ELSE Dict(get_default_fonts[c])]
        copies == \A c \in CategorySet : copied[c].t \in {"dict", "list"}
        \* lines 118-122; assigning a property to an array raises
        fills  == \A c \in CategorySet :
                     \/ copied[c].t = "dict"
                     \/ \A f \in required_properties : HasProperty(copied[c], f)
        filled == [c \in CategorySet |->
                     [f \in (DOMAIN copied[c].d) \cup required_properties |->
                        IF f \in DOMAIN copied[c].d THEN copied[c].d[f]
                        ELSE get_default_fonts[c][f]]]
        \* lines 125-130; font['family'] needs an object and .replace a string
        urls   == \A c \in CategorySet : copied[c].t = "dict" /\ filled[c].family.t = "str"
    IN  IF copies /\ fills /\ urls
        THEN [primary_heading   |-> filled["primary_heading"],
              secondary_heading |-> filled["secondary_heading"],
              body_text         |-> filled["body_text"],
              accent_text       |-> filled["accent_text"],
              google_fonts_url  |->
                 [query |-> [i \in 1..Len(required_categories) |->
                               FamilyItem(filled[required_categories[i]].family.s,
                                          filled[required_categories[i]].weight)],
                  display_swap |-> FALSE]]
        ELSE get_default_fonts

\* notebook_functions.get_css_variables (lines 353-377) on a font set whose
\* families are strings: per category the font-family declaration (the
\* family quoted when it holds a blank), the weight and the style
get_css_variables(fonts) ==
    [c \in CategorySet |->
        [family_decl |-> [quoted   |-> Len(fonts[c].family.s) > 1,
                          family   |-> fonts[c].family.s,
                          fallback |-> fonts[c].fallback],
         weight |-> fonts[c].weight,
         style  |-> fonts[c].style]]

\* The font block of index() (lines 183-199): the pair of processed_fonts
\* and font_css_vars for what generate_font_recommendations returned.
FontBlock(raw_fonts) ==
    LET processed_fonts ==
            IF raw_fonts = None THEN get_default_fonts ELSE process_fonts(raw_fonts)
    IN  [fonts |-> processed_fonts, css |-> get_css_variables(processed_fonts)]

-----------------------------------------------------------------------------
(* Inputs: what the form, the geocoder, the weather service and the three  *)
(* generators can hand to the program.                                     *)

Cities == {City("City", 1)}

\* weather codes the weather service reports (0: in the table, 4: not)
ReportedCodes == {0, 4}

HexA == <<"#", "1", "a", "2", "b", "3", "c">>

\* the text 'rgb(255, 0, 10)'
RgbText == <<"r", "g", "b", "(", "2", "5", "5", ",", " ", "0", ",", " ", "1", "0", ")">>

FullPalette == [c \in RequiredColorSet |-> Str(HexA)]

Without(f, k) == [x \in (DOMAIN f) \ {k} |-> f[x]]

With(f, k, v) == [x \in (DOMAIN f) \cup {k} |-> IF x = k THEN v ELSE f[x]]

Json(val) == [kind |-> "json", val |-> val]

\* the text 'rgb(300, 0, 10)'
WideRgbText == <<"r", "g", "b", "(", "3", "0", "0", ",", " ", "0", ",", " ", "1", "0", ")">>

PaletteOutputs ==
    {[kind |-> "error"], [kind |-> "text"],
     Json(With(FullPalette, "color_tiles", Str(RgbText))),
     Json(Without(FullPalette, "color_tiles")),
     Json(With(FullPalette, "color_tiles", Str(WideRgbText))),
     Json(With(FullPalette, "color_accent", Str(HexA)))}

Lato == Descriptor(<<"Lato">>, "sans-serif", "400", "normal")

FullFonts == [c \in CategorySet |-> Dict(Lato)]

FontOutputs ==
    {[kind |-> "error"], [kind |-> "text"],
     Json(With(FullFonts, "body_text", Dict(Descriptor(<<"Open", "Sans">>, "serif", "700", "italic")))),
     Json(Without(FullFonts, "accent_text")),
     Json(With(FullFonts, "body_text", Dict(Without(Lato, "fallback")))),
     Json(With(FullFonts, "body_text", Dict(With(Lato, "family", Num(7)))))}

\* outcomes of the image generator call: a decoded image, a ClientError,
\* or an answer without artifacts
ImageOutcomes == {"image", "client_error", "bad_answer"}

\* the inputs of the burst specification
BurstCities == {City("City", 1)}

BurstCodes == {0}

BurstPaletteOutputs == {Json(FullPalette)}

BurstFontOutputs == {Json(FullFonts)}

BurstImageOutcomes == {"image"}

-----------------------------------------------------------------------------
(* Observations kept beside the program state: what each generator of the  *)
(* current request returned, how the cache entry looked when it was looked *)
(* up, and what the clean-up loop did.                                     *)

\* the state of the sidecar of key at time t: "absent", "stale" (24 hours
\* old or older), "file_gone" (fresh, its image file missing) or "valid"
EntryState(fs, key, t) ==
    IF CacheFile(key) \notin DOMAIN fs THEN "absent"
    ELSE IF t - fs[CacheFile(key)].data.timestamp >= CacheTTL THEN "stale"
    ELSE IF fs[CacheFile(key)].data.image_path.file \notin DOMAIN fs THEN "file_gone"
    ELSE "valid"

\* the generator's answer is one of the failures the palette contract names
PaletteFailure(raw) ==
    raw.kind # "json" \/ \E c \in RequiredColorSet : c \notin DOMAIN raw.val

\* the generator's answer is one of the failures the font contract names
FontFailure(raw) ==
    \/ raw.kind # "json"
    \/ \E c \in CategorySet : c \notin DOMAIN raw.val
    \/ \E c \in CategorySet : raw.val[c].t = "dict"
                              /\ \E f \in required_properties : f \notin DOMAIN raw.val[c].d

\* pal, fnt: what generate_color_palette and generate_font_recommendations
\* returned, and whether the answer was a failure the contract names;
\* img_call: "none", "image" or "failed"; entry, recorded: the sidecar at
\* the lookup; scanned, removed, failed: the old images listed, removed and
\* left by a raising os.remove; put: image and sidecar were written;
\* wx_done: get_weather_data was called
NoObs ==
    [wx_done |-> FALSE, pal_done |-> FALSE, pal_failure |-> FALSE, pal |-> None,
     fnt_done |-> FALSE, fnt_failure |-> FALSE, fnt |-> None,
     img_call |-> "none", entry |-> "none", recorded |-> None,
     scanned |-> {}, removed |-> {}, failed |-> {}, put |-> FALSE]

-----------------------------------------------------------------------------
(* State *)

IdleRequest ==
    [pc |-> "idle", city |-> None, desc |-> "", error |-> "",
     colors |-> None, fonts |-> None, css |-> None, image_path |-> None,
     timestamp |-> 0, listing |-> {}, olds |-> <<>>, obs |-> NoObs]

\* render_template with the default styling (lines 150-154, 159-163)
ErrorPage(rq, message) ==
    [rq EXCEPT !.pc = "done", !.error = message,
               !.colors = get_default_colors,
               !.fonts = get_default_fonts,
               !.css = get_css_variables(get_default_fonts)]

\* str(e) of the KeyError of request.form['city'] (line 145) for a form
\* without a city field
BadRequestText == "400 Bad Request"

\* str(e) of the ValueError of int(weather_code) (notebook_functions.py
\* line 122) for a weather code that is NaN
NaNText == "cannot convert float NaN to integer"

\* the exception leaves index() unhandled
RaiseUnhandled(rq, e) == [rq EXCEPT !.pc = "crashed", !.error = e]

\* the handler around the POST branch (lines 218-225): renders the error
\* page with str(e) and the default styling
HandleException(rq, e) == ErrorPage(rq, e)

\* generate_city_image returns path and index() renders (lines 202-216)
RenderWith(rq, path) ==
    [rq EXCEPT !.pc = "done", !.image_path = path]

\* the record of one more external call dispatched at time t
Dispatched(log, t) == [log EXCEPT ![t] = @ + 1]

\* directories earlier runs of the program can have left behind: none, as
\* many images as the cache keeps, and two more runs than that, the
\* clean-up of the last run having worked or not
EarlierDirectories ==
    {EarlierRuns(0), EarlierRuns(MaxImages), EarlierRuns(MaxImages + 2),
     EarlierRunsStuck(MaxImages + 2)}

Init ==
    /\ now = 0
    /\ files \in EarlierDirectories
    /\ req = [r \in Slots |-> IdleRequest]
    /\ started = 0
    /\ calls = [t \in Times |-> 0]

-----------------------------------------------------------------------------
(* Actions *)

\* the clock moves on; dispatches that have left every trailing 60-second
\* window are dropped from the record
Tick(t) ==
    /\ t \in Times /\ t > now
    /\ now' = t
    /\ calls' = [u \in Times |-> IF t - u >= 60 THEN 0 ELSE calls[u]]
    /\ UNCHANGED <<files, req, started>>

\* a POST arrives: city = request.form['city'] (line 145)
Post(r, city, limit) ==
    /\ req[r].pc \in {"idle", "done"}
    /\ started < limit
    /\ started' = started + 1
    /\ req' = [req EXCEPT ![r] = [IdleRequest EXCEPT !.pc = "coords", !.city = city]]
    /\ UNCHANGED <<now, files, calls>>

\* the failed lookup sets the error without returning
CoordsNoReturn(r, found) ==
    /\ req[r].pc = "coords"
    /\ calls' = Dispatched(calls, now)
    /\ req' = [req EXCEPT ![r] =
                 [@ EXCEPT !.pc = "weather",
                           !.error = IF found THEN @ ELSE "City not found"]]
    /\ UNCHANGED <<now, files, started>>

\* a POST whose form has no city field: request.form['city'] raises
\* (line 145)
PostNoCity(r, limit) ==
    /\ req[r].pc \in {"idle", "done"}
    /\ started < limit
    /\ started' = started + 1
    /\ req' = [req EXCEPT ![r] = HandleException(IdleRequest, BadRequestText)]
    /\ UNCHANGED <<now, files, calls>>

\* get_city_coordinates (lines 148-154)
Coords(r, found) ==
    /\ req[r].pc = "coords"
    /\ calls' = Dispatched(calls, now)
    /\ req' = [req EXCEPT ![r] =
                 IF found THEN [@ EXCEPT !.pc = "weather"]
                 ELSE ErrorPage(@, "City not found")]
    /\ UNCHANGED <<now, files, started>>

\* get_weather_data and get_weather_description (lines 157-169)
Weather(r, fetched, code) ==
    /\ req[r].pc = "weather"
    /\ calls' = Dispatched(calls, now)
    /\ req' = [req EXCEPT ![r] =
                 IF fetched
                 THEN [@ EXCEPT !.pc = "palette", !.desc = get_weather_description(code),
                                !.obs.wx_done = TRUE]
                 ELSE [ErrorPage(@, "Could not fetch weather data") EXCEPT
                          !.obs.wx_done = TRUE]]
    /\ UNCHANGED <<now, files, started>>

\* get_weather_data answers with a current weather_code that is NaN:
\* get_weather_description raises at int(weather_code) (line 168)
WeatherNaN(r) ==
    /\ req[r].pc = "weather"
    /\ calls' = Dispatched(calls, now)
    /\ req' = [req EXCEPT ![r] =
                 [HandleException(@, NaNText) EXCEPT !.obs.wx_done = TRUE]]
    /\ UNCHANGED <<now, files, started>>

\* the palette block of index() (lines 172-180)
PaletteBlock(rq, color_response) ==
    [rq EXCEPT !.pc = "fonts", !.colors = process_colors(color_response)]

Palette(r, raw) ==
    /\ req[r].pc = "palette"
    /\ calls' = Dispatched(calls, now)
    /\ req' = [req EXCEPT ![r] =
                 [PaletteBlock(@, generate_color_palette(raw)) EXCEPT
                     !.obs.pal_failure = PaletteFailure(raw),
                     !.obs.pal = generate_color_palette(raw),
                     !.obs.pal_done = TRUE]]
    /\ UNCHANGED <<now, files, started>>

\* one try block around the palette and the font generation
FontStepResetsColors(rq, raw_fonts) ==
    [rq EXCEPT !.pc = "img_lookup",
               !.colors = IF raw_fonts = None THEN get_default_colors ELSE @,
               !.fonts = FontBlock(raw_fonts).fonts,
               !.css = FontBlock(raw_fonts).css]

\* the font block of index() (lines 183-199)
FontStep(rq, raw_fonts) ==
    [rq EXCEPT !.pc = "img_lookup",
               !.fonts = FontBlock(raw_fonts).fonts,
               !.css = FontBlock(raw_fonts).css]

Fonts(r, raw) ==
    /\ req[r].pc = "fonts"
    /\ calls' = Dispatched(calls, now)
    /\ req' = [req EXCEPT ![r] =
                 [FontStep(@, generate_font_recommendations(raw)) EXCEPT
                     !.obs.fnt_failure = FontFailure(raw),
                     !.obs.fnt = generate_font_recommendations(raw),
                     !.obs.fnt_done = TRUE]]
    /\ UNCHANGED <<now, files, started>>

\* generate_city_image, the cache lookup (lines 482-501)
ImgLookup(r) ==
    LET key  == CacheKey(req[r].city, req[r].desc)
        path == CacheLookup(files, key, now)
        seen == [req[r] EXCEPT
                    !.obs.entry = EntryState(files, key, now),
                    !.obs.recorded = IF CacheFile(key) \in DOMAIN files
                                     THEN files[CacheFile(key)].data.image_path
                                     ELSE None]
    IN  /\ req[r].pc = "img_lookup"
        /\ req' = [req EXCEPT ![r] =
                     IF path # None THEN RenderWith(seen, path)
                     ELSE [seen EXCEPT !.pc = "img_scan"]]
        /\ UNCHANGED <<now, files, started, calls>>

\* generate_city_image, the timestamp and the listing of the old images
\* (lines 506-519)
ImgScan(r, olds) ==
    /\ req[r].pc = "img_scan"
    /\ olds \in OldImages(files)
    /\ req' = [req EXCEPT ![r] =
                 [@ EXCEPT !.pc = IF olds = <<>> THEN "img_call" ELSE "img_clean",
                           !.timestamp = now, !.olds = olds,
                           !.obs.scanned = {olds[i] : i \in 1..Len(olds)}]]
    /\ UNCHANGED <<now, files, started, calls>>

\* the exception of os.remove leaving the function through its outer handler
AbortOnFailedRemove(rq) == RenderWith(rq, None)

\* Where the clean-up loop goes after an os.remove raised inside its try
\* (lines 520-527): on to the next old image.
AfterFailedRemove(rq) ==
    [rq EXCEPT !.olds = Tail(@),
               !.pc = IF Tail(rq.olds) = <<>> THEN "img_call" ELSE "img_clean"]

\* generate_city_image, one pass of the clean-up loop (lines 519-527)
ImgClean(r, rmImage, rmCache) ==
    LET old_image == Head(req[r].olds)
        removes   == old_image \in DOMAIN files /\ rmImage
        raised    == ~removes \/ (OldCache(old_image) \in DOMAIN files /\ ~rmCache)
        next      == [req[r] EXCEPT
                         !.olds = Tail(@),
                         !.pc = IF Tail(req[r].olds) = <<>> THEN "img_call" ELSE "img_clean"]
        after     == IF raised THEN AfterFailedRemove(req[r]) ELSE next
    IN  /\ req[r].pc = "img_clean"
        /\ files' = RemoveOld(files, old_image, rmImage, rmCache)
        /\ req' = [req EXCEPT ![r] =
                     [after EXCEPT
                        !.obs.removed = IF removes THEN @ \cup {old_image} ELSE @,
                        !.obs.failed  = IF raised THEN @ \cup {old_image} ELSE @]]
        /\ UNCHANGED <<now, started, calls>>

\* generate_city_image, the call of the image generator (lines 554-564 and
\* the handlers of lines 586-597)
ImgCall(r, outcome) ==
    /\ req[r].pc = "img_call"
    /\ calls' = Dispatched(calls, now)
    /\ req' = [req EXCEPT ![r] =
                 IF outcome = "image"
                 THEN [@ EXCEPT !.pc = "img_write", !.obs.img_call = "image"]
                 ELSE [RenderWith(@, None) EXCEPT !.obs.img_call = "failed"]]
    /\ UNCHANGED <<now, files, started>>

\* generate_city_image, the image file is written (lines 566-568)
ImgWrite(r) ==
    LET key == CacheKey(req[r].city, req[r].desc)
    IN  /\ req[r].pc = "img_write"
        /\ files' = WriteFile(files, ImageFile(key, req[r].timestamp), now, ImageData)
        /\ req' = [req EXCEPT ![r].pc = "img_sidecar"]
        /\ UNCHANGED <<now, started, calls>>

\* generate_city_image, the sidecar is written and the path returned
\* (lines 570-584)
ImgSidecar(r) ==
    LET key  == CacheKey(req[r].city, req[r].desc)
        name == ImageFile(key, req[r].timestamp)
    IN  /\ req[r].pc = "img_sidecar"
        /\ files' = WriteFile(files, CacheFile(key), now,
                              CacheData(req[r].timestamp, name, req[r].city, req[r].desc))
        /\ req' = [req EXCEPT ![r] =
                     [RenderWith(@, RelativePath(name)) EXCEPT !.obs.put = TRUE]]
        /\ UNCHANGED <<now, started, calls>>

-----------------------------------------------------------------------------
(* generate_city_image step by step, as it runs when another handler       *)
(* thread works on static/images at the same time                          *)

\* the sidecar between open(cache_file, 'w') and the end of json.dump
EmptyFile == [empty |-> TRUE]

\* the cache lookup (lines 490-501) on a directory other handlers write:
\* json.load of a sidecar that is open for writing raises, and the handler
\* of line 592 returns None
ImgLookupShared(r) ==
    LET cache_file == CacheFile(CacheKey(req[r].city, req[r].desc))
        partial    == cache_file \in DOMAIN files /\ files[cache_file].data = EmptyFile
    IN  /\ req[r].pc = "img_lookup"
        /\ \/ /\ ~partial
              /\ ImgLookup(r)
           \/ /\ partial
              /\ req' = [req EXCEPT ![r] =
                           [RenderWith(@, None) EXCEPT !.obs.entry = "partial"]]
              /\ UNCHANGED <<now, files, started, calls>>

\* timestamp = int(time.time()) and os.listdir(static_dir) (lines 507-514)
ImgList(r) ==
    /\ req[r].pc = "img_scan"
    /\ req' = [req EXCEPT ![r] =
                 [@ EXCEPT !.pc = "img_stat", !.timestamp = now,
                           !.listing = Pngs(files)]]
    /\ UNCHANGED <<now, files, started, calls>>

\* os.path.getctime of the listed files and the sort (lines 512-519), every
\* listed file still being there
ImgStat(r, olds) ==
    /\ req[r].pc = "img_stat"
    /\ req[r].listing \subseteq DOMAIN files
    /\ olds \in OldTails(files, req[r].listing, Cardinality(req[r].listing) - MaxImages)
    /\ req' = [req EXCEPT ![r] =
                 [@ EXCEPT !.pc = IF olds = <<>> THEN "img_call" ELSE "img_clean",
                           !.olds = olds,
                           !.obs.scanned = {olds[i] : i \in 1..Len(olds)}]]
    /\ UNCHANGED <<now, files, started, calls>>

\* os.path.getctime of a listed file that has been removed since raises
\* (line 513, outside the loop's try): the handler of line 592 returns None
ImgStatGone(r) ==
    /\ req[r].pc = "img_stat"
    /\ ~(req[r].listing \subseteq DOMAIN files)
    /\ req' = [req EXCEPT ![r] = RenderWith(@, None)]
    /\ UNCHANGED <<now, files, started, calls>>

\* open(cache_file, 'w') (line 580): the sidecar is created or truncated
ImgSidecarOpen(r) ==
    LET key == CacheKey(req[r].city, req[r].desc)
    IN  /\ req[r].pc = "img_sidecar"
        /\ files' = WriteFile(files, CacheFile(key), now, EmptyFile)
        /\ req' = [req EXCEPT ![r].pc = "img_dump"]
        /\ UNCHANGED <<now, started, calls>>

\* json.dump(cache_data, f), the file is closed and the path returned
\* (lines 581-584)
ImgSidecarDump(r) ==
    LET key  == CacheKey(req[r].city, req[r].desc)
        name == ImageFile(key, req[r].timestamp)
    IN  /\ req[r].pc = "img_dump"
        /\ files' = WriteFile(files, CacheFile(key), now,
                              CacheData(req[r].timestamp, name, req[r].city, req[r].desc))
        /\ req' = [req EXCEPT ![r] =
                     [RenderWith(@, RelativePath(name)) EXCEPT !.obs.put = TRUE]]
        /\ UNCHANGED <<now, started, calls>>

-----------------------------------------------------------------------------
(* Specifications *)

TickStep == \E t \in Times : Tick(t)

PostStep == \E city \in Cities : Post("r1", city, MaxRequests)

CoordsStep == \E found \in BOOLEAN : Coords("r1", found)

WeatherStep == \E fetched \in BOOLEAN, code \in ReportedCodes : Weather("r1", fetched, code)

PaletteStep == \E raw \in PaletteOutputs : Palette("r1", raw)

PostNoCityStep == PostNoCity("r1", MaxRequests)

WeatherNaNStep == WeatherNaN("r1")

FontsStep == \E raw \in FontOutputs : Fonts("r1", raw)

ImgLookupStep == ImgLookup("r1")

ImgScanStep == \E olds \in OldImages(files) : ImgScan("r1", olds)

ImgCleanStep == \E rmImage, rmCache \in BOOLEAN : ImgClean("r1", rmImage, rmCache)

ImgCallStep == \E outcome \in ImageOutcomes : ImgCall("r1", outcome)

ImgWriteStep == ImgWrite("r1")

ImgSidecarStep == ImgSidecar("r1")

\* one request at a time
Next ==
    \/ TickStep
    \/ PostStep
    \/ CoordsStep
    \/ WeatherStep
    \/ PaletteStep
    \/ FontsStep
    \/ ImgLookupStep
    \/ ImgScanStep
    \/ ImgCleanStep
    \/ ImgCallStep
    \/ ImgWriteStep
    \/ ImgSidecarStep
    \/ PostNoCityStep
    \/ WeatherNaNStep

Spec == Init /\ [][Next]_vars

\* A burst of requests for one city whose lookups succeed.
BurstPostStep == \E city \in BurstCities : Post("r1", city, BurstRequests)

BurstCoordsStep == Coords("r1", TRUE)

BurstWeatherStep == \E code \in BurstCodes : Weather("r1", TRUE, code)

BurstPaletteStep == \E raw \in BurstPaletteOutputs : Palette("r1", raw)

BurstFontsStep == \E raw \in BurstFontOutputs : Fonts("r1", raw)

BurstImgCallStep == \E outcome \in BurstImageOutcomes : ImgCall("r1", outcome)

NextBurst ==
    \/ TickStep
    \/ BurstPostStep
    \/ BurstCoordsStep
    \/ BurstWeatherStep
    \/ BurstPaletteStep
    \/ BurstFontsStep
    \/ ImgLookupStep
    \/ ImgScanStep
    \/ ImgCleanStep
    \/ BurstImgCallStep
    \/ ImgWriteStep
    \/ ImgSidecarStep

SpecBurst == Init /\ [][NextBurst]_vars

\* Two handler threads serving requests for one city whose lookups and
\* generators all succeed, their steps interleaved in any order.
RacePostStep == \E r \in Slots, city \in BurstCities : Post(r, city, RaceRequests)

RaceCoordsStep == \E r \in Slots : Coords(r, TRUE)

RaceWeatherStep == \E r \in Slots, code \in BurstCodes : Weather(r, TRUE, code)

RacePaletteStep == \E r \in Slots, raw \in BurstPaletteOutputs : Palette(r, raw)

RaceFontsStep == \E r \in Slots, raw \in BurstFontOutputs : Fonts(r, raw)

RaceLookupStep == \E r \in Slots : ImgLookupShared(r)

RaceListStep == \E r \in Slots : ImgList(r)

RaceStatStep ==
    \E r \in Slots :
        \E olds \in OldTails(files, req[r].listing \cap DOMAIN files,
                             Cardinality(req[r].listing) - MaxImages) :
            ImgStat(r, olds)

RaceStatGoneStep == \E r \in Slots : ImgStatGone(r)

RaceCleanStep == \E r \in Slots : ImgClean(r, TRUE, TRUE)

RaceCallStep == \E r \in Slots, outcome \in BurstImageOutcomes : ImgCall(r, outcome)

RaceWriteStep == \E r \in Slots : ImgWrite(r)

RaceSidecarOpenStep == \E r \in Slots : ImgSidecarOpen(r)

RaceSidecarDumpStep == \E r \in Slots : ImgSidecarDump(r)

NextRace ==
    \/ TickStep
    \/ RacePostStep
    \/ RaceCoordsStep
    \/ RaceWeatherStep
    \/ RacePaletteStep
    \/ RaceFontsStep
    \/ RaceLookupStep
    \/ RaceListStep
    \/ RaceStatStep
    \/ RaceStatGoneStep
    \/ RaceCleanStep
    \/ RaceCallStep
    \/ RaceWriteStep
    \/ RaceSidecarOpenStep
    \/ RaceSidecarDumpStep

SpecRace == Init /\ [][NextRace]_vars


-----------------------------------------------------------------------------
(* Claims *)

ImagePcs == {"img_scan", "img_clean", "img_call", "img_write", "img_sidecar"}

AfterCleanPcs == {"img_call", "img_write", "img_sidecar", "done"}

\* C1: when the sidecar of the key exists, is younger than 24 hours and its
\* image file is on disk, generate_city_image returns the recorded path and
\* does not call the image generator.
C1_ValidEntryIsServed ==
    \A r \in Slots :
        req[r].obs.entry = "valid" =>
            /\ req[r].pc \notin ImagePcs
            /\ req[r].obs.img_call = "none"
            /\ req[r].pc = "done" => req[r].image_path = req[r].obs.recorded

\* C2: when the sidecar is absent, 24 hours old or older, or names an image
\* file that is gone, the lookup is a miss and not an error: the recorded
\* path is not returned and the call goes on to the image generator.
C2_FailedConditionIsMiss ==
    \A r \in Slots :
        req[r].obs.entry \in {"absent", "stale", "file_gone"} =>
            /\ req[r].error = ""
            /\ req[r].pc \in ImagePcs \cup {"done"}
            /\ req[r].pc = "done" => req[r].obs.img_call # "none"

\* a fresh sidecar whose image file is gone was looked up, and the request
\* ended with a regenerated image
C2_Witness ==
    \E r \in Slots :
        /\ req[r].obs.entry = "file_gone"
        /\ req[r].pc = "done"
        /\ req[r].obs.put
        /\ req[r].image_path # req[r].obs.recorded

\* C3: after every successful Put (image and sidecar written) at most 20
\* image files are in the image directory.
C3_AtMostTwentyImages ==
    \A r \in Slots :
        (req[r].pc = "done" /\ req[r].obs.put) => Cardinality(Pngs(files)) <= MaxImages

\* C4: once the clean-up pass of a request is over, no sidecar on disk
\* records an image that the pass removed.
C4_SidecarGoesWithImage ==
    \A r \in Slots :
        req[r].pc \in AfterCleanPcs =>
            \A old_image \in req[r].obs.removed :
                \A j \in Jsons(files) : files[j].data.image_path.file # old_image

\* C5: an os.remove that raises in the clean-up loop is skipped: the request
\* shows no error, every listed old image is still tried, and the call goes
\* on to the image generator and, when that answers, writes and returns the
\* new image.
C5_FailedRemoveIsSkipped ==
    \A r \in Slots :
        req[r].obs.failed # {} =>
            /\ req[r].error = ""
            /\ req[r].pc \in ImagePcs \cup {"done"}
            /\ req[r].pc \in AfterCleanPcs =>
                   req[r].obs.scanned = req[r].obs.removed \cup req[r].obs.failed
            /\ req[r].pc = "done" =>
                   /\ req[r].obs.img_call # "none"
                   /\ req[r].obs.img_call = "image" =>
                          req[r].obs.put /\ req[r].image_path # None

\* one os.remove raised, a later old image of the same pass was removed, and
\* the request ended with the new image
C5_Witness ==
    \E r \in Slots :
        /\ req[r].obs.failed # {}
        /\ req[r].obs.removed # {}
        /\ req[r].pc = "done"
        /\ req[r].obs.put
        /\ req[r].image_path # None

\* C6: when palette generation fails (failed call, unparsable answer, a
\* required key missing) the page gets the default palette and no error.
C6_PaletteFallsBack ==
    \A r \in Slots :
        (req[r].obs.pal_done /\ req[r].obs.pal_failure) =>
            /\ req[r].colors = get_default_colors
            /\ req[r].error = ""

\* a palette failure, rendered with the default palette
C6_Witness ==
    \E r \in Slots :
        /\ req[r].pc = "done"
        /\ req[r].obs.pal_failure
        /\ req[r].colors = get_default_colors

\* a font set with the 4 categories, each with the 4 properties
CompleteFontSet(fonts) ==
    \A c \in CategorySet :
        c \in DOMAIN fonts /\ required_properties \subseteq DOMAIN fonts[c]

\* C7: font generation shows no error; a failed call, an unparsable answer,
\* a missing category or a missing property gives the default font set;
\* the font set rendered always has the 4 categories with the 4 properties.
C7_FontsFallBack ==
    \A r \in Slots :
        /\ (req[r].obs.fnt_done /\ req[r].obs.fnt_failure) =>
               req[r].fonts = get_default_fonts
        /\ req[r].obs.fnt_done => req[r].error = ""
        /\ (req[r].obs.fnt_done \/ req[r].pc = "done") => CompleteFontSet(req[r].fonts)

\* a font failure, rendered with the default font set
C7_Witness ==
    \E r \in Slots :
        /\ req[r].pc = "done"
        /\ req[r].obs.fnt_failure
        /\ req[r].fonts = get_default_fonts

\* C8: in the page rendered after both lookups each of palette, fonts and
\* image is its own generator's result, or its own fallback (default
\* palette, default font set, no image) when that generator failed,
\* whatever the other two did.
C8_IndependentFallbacks ==
    \A r \in Slots :
        (req[r].pc = "done" /\ req[r].error = "") =>
            /\ req[r].colors =
                  IF req[r].obs.pal = None THEN get_default_colors ELSE req[r].obs.pal
            /\ req[r].fonts =
                  IF req[r].obs.fnt = None THEN get_default_fonts
                  ELSE process_fonts(req[r].obs.fnt)
            /\ req[r].image_path =
                  CASE req[r].obs.img_call = "image" ->
                          RelativePath(ImageFile(CacheKey(req[r].city, req[r].desc),
                                                 req[r].timestamp))
                    [] req[r].obs.img_call = "failed" -> None
                    [] OTHER -> req[r].obs.recorded
            /\ req[r].obs.img_call = "image" => req[r].image_path.file \in DOMAIN files

\* only the font generator failed: default font set, real palette and image
C8_Witness ==
    \E r \in Slots :
        /\ req[r].pc = "done" /\ req[r].error = ""
        /\ req[r].obs.fnt = None /\ req[r].fonts = get_default_fonts
        /\ req[r].obs.pal # None /\ req[r].colors = req[r].obs.pal
        /\ req[r].obs.img_call = "image" /\ req[r].image_path # None

\* C9: the three generation calls run concurrently: while the palette call
\* has not finished the font call can be started, while the palette or the
\* font call has not finished the image call can be started, and the page
\* is rendered only when all three have finished.
C9_GeneratorsRunConcurrently ==
    /\ req["r1"].pc = "palette" => ENABLED FontsStep
    /\ req["r1"].pc \in {"palette", "fonts"} => ENABLED ImgLookupStep
    /\ (req["r1"].pc = "done" /\ req["r1"].error = "") =>
           req["r1"].obs.pal_done /\ req["r1"].obs.fnt_done

\* the external calls dispatched in the 60 seconds up to now
WindowCalls ==
    LET inWindow == {u \in Times : u <= now /\ now - u < 60}
        RECURSIVE Sum(_)
        Sum(S) == IF S = {} THEN 0
                  ELSE LET u == CHOOSE x \in S : TRUE IN calls[u] + Sum(S \ {u})
    IN  Sum(inWindow)

\* C10: at most 30 external calls are dispatched in any trailing 60-second
\* window.
C10_AtMostThirtyPerWindow == WindowCalls <= 30

\* the steps of a request in which a generator is called or its result used
GenerationPcs == {"palette", "fonts", "img_lookup"} \cup ImagePcs

\* C11: after a POST for a city has been composed and rendered, a later POST
\* for the same city within 1 hour is rendered from the stored page and calls
\* no palette, font or image generator.  (In the burst every request is for
\* the one city and every lookup succeeds, so from the second request on an
\* earlier page for the city exists; at time 0 it is less than an hour old.)
C11_RepeatServedFromResponseCache ==
    (started >= 2 /\ now = 0) =>
        /\ req["r1"].pc \notin GenerationPcs
        /\ ~req["r1"].obs.pal_done
        /\ ~req["r1"].obs.fnt_done
        /\ req["r1"].obs.img_call = "none"

\* a request rendered with the default styling, no image and no generator
\* called
DefaultStyled(rq) ==
    /\ rq.pc = "done"
    /\ rq.colors = get_default_colors
    /\ rq.fonts = get_default_fonts
    /\ rq.css = get_css_variables(get_default_fonts)
    /\ rq.image_path = None
    /\ ~rq.obs.pal_done /\ ~rq.obs.fnt_done
    /\ rq.obs.img_call = "none" /\ rq.obs.entry = "none" /\ ~rq.obs.put

\* C12: generation starts only after both lookups succeeded.  A failed city
\* lookup gives error "City not found" and the weather fetch is not
\* attempted; a failed weather fetch gives error "Could not fetch weather
\* data"; both pages carry the default palette and font set and no palette,
\* font or image generator is called.
C12_LookupFailureStopsTheRequest ==
    \A r \in Slots :
        /\ req[r].error = "City not found" =>
               DefaultStyled(req[r]) /\ ~req[r].obs.wx_done
        /\ req[r].error = "Could not fetch weather data" =>
               DefaultStyled(req[r]) /\ req[r].obs.wx_done
        /\ req[r].pc \in GenerationPcs =>
               req[r].error = "" /\ req[r].obs.wx_done

\* a failed city lookup, rendered
C12_Witness ==
    \E r \in Slots :
        /\ req[r].pc = "done"
        /\ req[r].error = "City not found"
        /\ req[r].colors = get_default_colors
        /\ ~req[r].obs.wx_done

\* C13: an exception of the POST sequence that no inner handler recovers (a
\* form without a city, a weather code int() rejects) is caught by the
\* handler of index() and rendered as an error page with the default
\* palette, the default font set and their CSS variables; no request ends
\* unrendered.
C13_TopLevelHandlerRenders ==
    \A r \in Slots :
        /\ req[r].pc # "crashed"
        /\ req[r].error \in {BadRequestText, NaNText} => DefaultStyled(req[r])

\* a NaN weather code, rendered as an error page
C13_Witness ==
    \E r \in Slots :
        /\ req[r].pc = "done"
        /\ req[r].error = NaNText
        /\ req[r].obs.wx_done
        /\ req[r].colors = get_default_colors
        /\ req[r].css = get_css_variables(get_default_fonts)

\* C14 as stated: every page composed after successful lookups has palette,
\* fonts, CSS variables and image path populated, none of them null.
C14_AllFourFieldsPopulated ==
    \A r \in Slots :
        (req[r].pc = "done" /\ req[r].error = "") =>
            /\ req[r].colors # None
            /\ req[r].fonts # None
            /\ req[r].css # None
            /\ req[r].image_path # None

\* C14 as amended: every page composed after successful lookups has a
\* palette with the 7 required keys, a font set with the 4 categories and
\* the CSS variables of that font set; its image path is the served path of
\* an image, or null exactly when the image generation of the request
\* failed.
C14_StylingPopulatedImageMayBeNull ==
    \A r \in Slots :
        (req[r].pc = "done" /\ req[r].error = "") =>
            /\ req[r].colors # None
            /\ RequiredColorSet \subseteq DOMAIN req[r].colors
            /\ req[r].fonts # None
            /\ CompleteFontSet(req[r].fonts)
            /\ req[r].css = get_css_variables(req[r].fonts)
            /\ req[r].image_path = None <=> req[r].obs.img_call = "failed"

\* all three generators failed: default palette, default fonts, no image
C14_Witness ==
    \E r \in Slots :
        /\ req[r].pc = "done" /\ req[r].error = ""
        /\ req[r].obs.pal = None /\ req[r].colors = get_default_colors
        /\ req[r].obs.fnt = None /\ req[r].fonts = get_default_fonts
        /\ req[r].obs.img_call = "failed" /\ req[r].image_path = None

\* a '#' followed by six hexadecimal digits
WellFormedHex(chars) ==
    /\ Len(chars) = 7
    /\ chars[1] = "#"
    /\ \A i \in 2..7 : \E j \in 1..16 : HexDigits[j] = chars[i]

\* C15: a palette generate_color_palette accepts has exactly the 7 required
\* keys and each value is a well-formed #rrggbb string (an rgb(r,g,b) text
\* with r, g, b in 0..255 normalised to it); every other shape is rejected.
C15_AcceptedPaletteIsWellFormed ==
    \A r \in Slots :
        (req[r].obs.pal_done /\ req[r].obs.pal # None) =>
            /\ DOMAIN req[r].obs.pal = RequiredColorSet
            /\ \A c \in RequiredColorSet :
                   req[r].obs.pal[c].t = "str" /\ WellFormedHex(req[r].obs.pal[c].s)

\* C16: every image file is written under a name no image file in the
\* directory has: the write of the image never replaces the image of an
\* earlier generation of the key.
C16_PutWritesNewName ==
    [][\A r \in Slots :
          (req[r].pc = "img_write" /\ req'[r].pc = "img_sidecar") =>
              ImageFile(CacheKey(req[r].city, req[r].desc), req[r].timestamp)
                  \notin DOMAIN files]_vars

\* C17: whatever the interleaving of two requests for one key, a request
\* whose own image generation succeeds ends with an image: no request ends
\* without one because of the other request's file operations.  (In the
\* race every lookup and every generator call succeeds.)
C17_NoRequestLosesItsImage ==
    \A r \in Slots :
        req[r].pc = "done" => (req[r].error = "" /\ req[r].image_path # None)

\* C18: a generate_city_image call whose image generator call fails
\* returns no image and has left the image directory as it found it: the
\* call has removed no file and written none.
C18_FailedCallLeavesDirectoryAlone ==
    \A r \in Slots :
        (req[r].pc = "done" /\ req[r].obs.img_call = "failed") =>
            /\ req[r].image_path = None
            /\ req[r].obs.removed = {}
            /\ ~req[r].obs.put

====
